---- MODULE Spec2Model ----
(***************************************************************************)
(* Model of the Python server monitor (python_monitor_system.py, held in   *)
(* src/script_2.py): Config, SystemMonitor, EmailNotifier, SlackNotifier,  *)
(* ServerMonitorApp and main.                                              *)
(*                                                                         *)
(* Numbers the program handles as floats rounded to one decimal (percent,  *)
(* load, degrees) are integers in tenths: 80.0 is 800.  Time is in seconds.*)
(***************************************************************************)
EXTENDS Integers, Sequences, FiniteSets, TLC

VARIABLES
    config,       \* Config.config: the effective configuration
    defaults,     \* Config.defaults: the table of built-in defaults
    args,         \* the parsed command line of main
    pc,           \* position of main / run_continuous
    running,      \* ServerMonitorApp.running
    now,          \* wall clock, seconds since the process started
    cycles,       \* number of run_once calls completed or aborted
    history,      \* SystemMonitor.history
    probe,        \* what the operating system answers to the probes
    metrics,      \* the snapshot of the latest collect_metrics
    alerts,       \* the result of the latest check_thresholds
    emailResult,  \* outcome of the email send_alert of the latest cycle
    slackResult,  \* outcome of the Slack send_alert of the latest cycle
    cycleLog,     \* observer: per cycle, its time, alert keys and what was sent
    transport,    \* what the SMTP session and the webhook POST did in the latest cycle
    host,         \* the answers the operating system may give during this run
    earlier,      \* environment: an earlier run of the monitor completed a cycle
    sh,           \* the state of a run of the Bash monitor (src/script_1.py)
    obs,          \* observer of the statement-level run: stop() and signal seen
    output,       \* what main printed as the status report
    exitCode      \* the process exit status, -1 while running

vars == <<config, defaults, args, pc, running, now, cycles, history, probe, metrics,
          alerts, emailResult, slackResult, cycleLog, transport, host, earlier,
          sh, obs, output, exitCode>>

(***************************************************************************)
(* Bounds of the model.                                                    *)
(***************************************************************************)
MaxEntries == 2
MaxCycles == 4
MaxHist == 3

(***************************************************************************)
(* Sequence helpers.                                                       *)
(***************************************************************************)
RECURSIVE Concat(_)
Concat(ss) == IF ss = <<>> THEN <<>> ELSE Head(ss) \o Concat(Tail(ss))

RECURSIVE SeqsUpTo(_, _)
SeqsUpTo(S, n) ==
    IF n = 0 THEN {<<>>}
    ELSE LET shorter == SeqsUpTo(S, n - 1)
         IN  shorter \cup {Append(s, x) : s \in shorter, x \in S}

Count(s, P(_)) == Cardinality({i \in 1..Len(s) : P(s[i])})

(***************************************************************************)
(* Config.__init__: the default configuration.                             *)
(***************************************************************************)
DefaultThresholds ==
    [cpu_percent |-> 800, memory_percent |-> 850, disk_percent |-> 900,
     load_average |-> 20, temperature |-> 700]

DefaultMonitoring ==
    [interval |-> 300, check_network |-> TRUE, check_processes |-> TRUE,
     check_temperature |-> TRUE, history_size |-> 1000]

DefaultEmail ==
    [enabled |-> TRUE, smtp_server |-> "localhost", username |-> "",
     password |-> "", to_addresses |-> <<"admin@company.com">>]

DefaultSlack ==
    [enabled |-> FALSE, webhook_url |-> "", channel |-> "#monitoring"]

Defaults ==
    [thresholds |-> DefaultThresholds, monitoring |-> DefaultMonitoring,
     email |-> DefaultEmail, slack |-> DefaultSlack]

(***************************************************************************)
(* The probes.  Each takes the operating system's answer p (ok = FALSE     *)
(* when the underlying psutil / os call raises) and returns the dictionary *)
(* the method returns.  A dictionary is a record; an insertion-ordered     *)
(* dictionary that is iterated is a sequence of [key, val] entries.  A     *)
(* value that is a string where a dictionary or list is expected is the    *)
(* record [str |-> TRUE].                                                  *)
(***************************************************************************)
ErrorStr == [str |-> TRUE]

get_cpu_info(p) ==
    IF p.ok
    THEN [percent |-> p.percent, load_average |-> [min1 |-> p.load1]]
    ELSE [percent |-> 0, error |-> ErrorStr]

get_memory_info(p) ==
    IF p.ok
    THEN [virtual |-> [percent |-> p.percent], swap |-> [percent |-> 0]]
    ELSE [virtual |-> [percent |-> 0], error |-> ErrorStr]

\* a partition of size 0 counts as full
DiskPercent_FullWhenEmpty(used, total) ==
    IF total > 0
    THEN LET q == (1000 * used) \div total
             r == (1000 * used) % total
         IN  IF 2 * r > total THEN q + 1
             ELSE IF 2 * r < total THEN q
             ELSE IF q % 2 = 0 THEN q ELSE q + 1
    ELSE 1000

\* round((used / total) * 100, 1) if total > 0 else 0, in tenths: the
\* quotient rounded to the nearest tenth, a tie to the even tenth
DiskPercent(used, total) ==
    IF total > 0
    THEN LET q == (1000 * used) \div total
             r == (1000 * used) % total
         IN  IF 2 * r > total THEN q + 1
             ELSE IF 2 * r < total THEN q
             ELSE IF q % 2 = 0 THEN q ELSE q + 1
    ELSE 0

RECURSIVE DiskEntries(_)
DiskEntries(parts) ==
    IF parts = <<>> THEN <<>>
    ELSE LET part == Head(parts)
         IN  IF part.readable
             THEN <<[key |-> part.mountpoint,
                     val |-> [total |-> part.total, used |-> part.used,
                              percent |-> DiskPercent(part.used, part.total)]]>>
                  \o DiskEntries(Tail(parts))
             ELSE DiskEntries(Tail(parts))

get_disk_info(p) ==
    IF p.ok
    THEN DiskEntries(p.parts) \o <<[key |-> "io", val |-> [read_bytes |-> 0]]>>
    ELSE <<[key |-> "error", val |-> ErrorStr]>>

get_network_info(p) ==
    IF p.ok THEN [connections |-> [total |-> 0]] ELSE [error |-> ErrorStr]

get_process_info(p) ==
    IF p.ok THEN [total |-> 1] ELSE [error |-> ErrorStr]

get_temperature_info(p) ==
    IF p.ok
    THEN [i \in 1..Len(p.groups) |->
            [key |-> p.groups[i].name,
             val |-> [list |-> [j \in 1..Len(p.groups[i].entries) |->
                                 [label |-> "N/A",
                                  current |-> p.groups[i].entries[j]]]]]]
    ELSE <<[key |-> "error", val |-> ErrorStr]>>

test_hosts == <<"8.8.8.8", "1.1.1.1", "google.com">>

\* p[i] is what the ping of test_hosts[i] did: "ok" (status 0), "fail"
\* (non-zero status) or "raise" (os.system raised)
test_network_connectivity(p) ==
    [i \in 1..Len(test_hosts) |->
        [key |-> test_hosts[i],
         val |-> IF p[i] = "raise"
                 THEN [reachable |-> FALSE, error |-> ErrorStr]
                 ELSE [reachable |-> (p[i] = "ok")]]]

\* one try block around the cpu and memory probes: a memory failure also
\* replaces the cpu readings by the failure value
collect_metrics_SharedTry(cfg, t, p) ==
    LET base == [timestamp |-> t,
                 cpu |-> get_cpu_info(p.cpu),
                 memory |-> get_memory_info(p.memory),
                 disk |-> get_disk_info(p.disk),
                 network |-> get_network_info(p.network)]
        withProc == IF cfg.monitoring.check_processes
                    THEN [processes |-> get_process_info(p.processes)]
                    ELSE <<>>
        withTemp == IF cfg.monitoring.check_temperature
                    THEN [temperature |-> get_temperature_info(p.temperature)]
                    ELSE <<>>
        withConn == IF cfg.monitoring.check_network
                    THEN [connectivity |-> test_network_connectivity(p.connectivity)]
                    ELSE <<>>
        m == base @@ withProc @@ withTemp @@ withConn
    IN  IF p.memory.ok THEN m
        ELSE [m EXCEPT !.cpu = [percent |-> 0, error |-> ErrorStr]]

collect_metrics(cfg, t, p) ==
    LET base == [timestamp |-> t,
                 cpu |-> get_cpu_info(p.cpu),
                 memory |-> get_memory_info(p.memory),
                 disk |-> get_disk_info(p.disk),
                 network |-> get_network_info(p.network)]
        withProc == IF cfg.monitoring.check_processes
                    THEN [processes |-> get_process_info(p.processes)]
                    ELSE <<>>
        withTemp == IF cfg.monitoring.check_temperature
                    THEN [temperature |-> get_temperature_info(p.temperature)]
                    ELSE <<>>
        withConn == IF cfg.monitoring.check_network
                    THEN [connectivity |-> test_network_connectivity(p.connectivity)]
                    ELSE <<>>
    IN  base @@ withProc @@ withTemp @@ withConn

(***************************************************************************)
(* SystemMonitor.check_thresholds.  The alert list is built section by     *)
(* section in the order of the code.                                       *)
(***************************************************************************)
\* a value equal to the bound already counts as critical
Severity_AtLeast(value, criticalAbove) ==
    IF value >= criticalAbove THEN "critical" ELSE "warning"

Severity(value, criticalAbove) ==
    IF value > criticalAbove THEN "critical" ELSE "warning"

CpuAlerts(m, th) ==
    LET cpu_percent == m.cpu.percent
    IN  IF cpu_percent > th.cpu_percent
        THEN <<[type |-> "cpu_high",
                severity |-> Severity(cpu_percent, 900),
                message |-> [text |-> "High CPU usage", value |-> cpu_percent],
                value |-> cpu_percent,
                threshold |-> th.cpu_percent]>>
        ELSE <<>>

\* the critical bound is the one of the cpu rule, 90
MemoryAlerts_CpuBound(m, th) ==
    LET memory_percent == m.memory.virtual.percent
    IN  IF memory_percent > th.memory_percent
        THEN <<[type |-> "memory_high",
                severity |-> Severity(memory_percent, 900),
                message |-> [text |-> "High memory usage", value |-> memory_percent],
                value |-> memory_percent,
                threshold |-> th.memory_percent]>>
        ELSE <<>>

MemoryAlerts(m, th) ==
    LET memory_percent == m.memory.virtual.percent
    IN  IF memory_percent > th.memory_percent
        THEN <<[type |-> "memory_high",
                severity |-> Severity(memory_percent, 950),
                message |-> [text |-> "High memory usage", value |-> memory_percent],
                value |-> memory_percent,
                threshold |-> th.memory_percent]>>
        ELSE <<>>

DiskAlert(entry, th) ==
    IF "str" \notin DOMAIN entry.val /\ "percent" \in DOMAIN entry.val
    THEN LET disk_percent == entry.val.percent
         IN  IF disk_percent > th.disk_percent
             THEN <<[type |-> "disk_high",
                     severity |-> Severity(disk_percent, 950),
                     message |-> [text |-> "High disk usage on",
                                  mountpoint |-> entry.key,
                                  value |-> disk_percent],
                     value |-> disk_percent,
                     threshold |-> th.disk_percent,
                     mountpoint |-> entry.key]>>
             ELSE <<>>
    ELSE <<>>

\* the loop over the mountpoints stops at the first alert
DiskAlerts_FirstOnly(m, th) ==
    LET all == Concat([i \in 1..Len(m.disk) |-> DiskAlert(m.disk[i], th)])
    IN  IF all = <<>> THEN <<>> ELSE <<Head(all)>>

DiskAlerts(m, th) ==
    Concat([i \in 1..Len(m.disk) |-> DiskAlert(m.disk[i], th)])

LoadAlerts(m, th) ==
    LET load_1min == IF "load_average" \in DOMAIN m.cpu
                     THEN m.cpu.load_average.min1 ELSE 0
    IN  IF load_1min > th.load_average
        THEN <<[type |-> "load_high",
                severity |-> "warning",
                message |-> [text |-> "High load average", value |-> load_1min],
                value |-> load_1min,
                threshold |-> th.load_average]>>
        ELSE <<>>

SensorAlert(sensor_name, sensor, th) ==
    IF "current" \in DOMAIN sensor /\ sensor.current > th.temperature
    THEN <<[type |-> "temperature_high",
            severity |-> Severity(sensor.current, 800),
            message |-> [text |-> "High temperature on",
                         sensor_name |-> sensor_name,
                         value |-> sensor.current],
            value |-> sensor.current,
            threshold |-> th.temperature]>>
    ELSE <<>>

SensorGroupAlerts(entry, th) ==
    IF "list" \in DOMAIN entry.val
    THEN Concat([j \in 1..Len(entry.val.list) |->
                    SensorAlert(entry.key, entry.val.list[j], th)])
    ELSE <<>>

TemperatureAlerts(m, th) ==
    LET temp_info == IF "temperature" \in DOMAIN m THEN m.temperature ELSE <<>>
    IN  Concat([i \in 1..Len(temp_info) |-> SensorGroupAlerts(temp_info[i], th)])

UnreachableHosts(m) ==
    LET connectivity == IF "connectivity" \in DOMAIN m THEN m.connectivity ELSE <<>>
    IN  Concat([i \in 1..Len(connectivity) |->
                   IF ~connectivity[i].val.reachable
                   THEN <<connectivity[i].key>> ELSE <<>>])

\* one alert is appended for each unreachable host
ConnectivityAlerts_PerHost(m) ==
    LET unreachable_hosts == UnreachableHosts(m)
    IN  [i \in 1..Len(unreachable_hosts) |->
            [type |-> "network_connectivity",
             severity |-> "warning",
             message |-> [text |-> "Network connectivity issues",
                          hosts |-> <<unreachable_hosts[i]>>],
             hosts |-> <<unreachable_hosts[i]>>]]

ConnectivityAlerts(m) ==
    LET unreachable_hosts == UnreachableHosts(m)
    IN  IF unreachable_hosts # <<>>
        THEN <<[type |-> "network_connectivity",
                severity |-> "warning",
                message |-> [text |-> "Network connectivity issues",
                             hosts |-> unreachable_hosts],
                hosts |-> unreachable_hosts]>>
        ELSE <<>>

\* a YAML null in the thresholds section: thresholds.get returns None
NoneValue == -1000000

HasReading(entries, field) ==
    \E i \in 1..Len(entries) :
        "str" \notin DOMAIN entries[i].val /\ field \in DOMAIN entries[i].val

HasSensorReading(temp_info) ==
    \E i \in 1..Len(temp_info) :
        /\ "list" \in DOMAIN temp_info[i].val
        /\ \E j \in 1..Len(temp_info[i].val.list) :
              "current" \in DOMAIN temp_info[i].val.list[j]

\* check_thresholds raises TypeError at the first `value > None` it reaches;
\* the cpu, memory and load comparisons are always reached, those of disk
\* and temperature once per reading
check_thresholds_raises(cfg, m) ==
    LET thresholds == cfg.thresholds
        temp_info == IF "temperature" \in DOMAIN m THEN m.temperature ELSE <<>>
    IN  \/ thresholds.cpu_percent = NoneValue
        \/ thresholds.memory_percent = NoneValue
        \/ thresholds.disk_percent = NoneValue /\ HasReading(m.disk, "percent")
        \/ thresholds.load_average = NoneValue
        \/ thresholds.temperature = NoneValue /\ HasSensorReading(temp_info)

check_thresholds(cfg, m) ==
    LET thresholds == cfg.thresholds
    IN  CpuAlerts(m, thresholds) \o MemoryAlerts(m, thresholds)
        \o DiskAlerts(m, thresholds) \o LoadAlerts(m, thresholds)
        \o TemperatureAlerts(m, thresholds) \o ConnectivityAlerts(m)

(***************************************************************************)
(* Config.load_config and Config._deep_update.  A user file is a nested    *)
(* dictionary; NoFile stands for a path that does not exist.               *)
(***************************************************************************)
NoFile == [missing |-> TRUE]

MergeSection(base_dict, update_dict) ==
    [key \in DOMAIN base_dict \cup DOMAIN update_dict |->
        IF key \in DOMAIN update_dict THEN update_dict[key] ELSE base_dict[key]]

_deep_update(base_dict, update_dict) ==
    [key \in DOMAIN base_dict \cup DOMAIN update_dict |->
        IF key \notin DOMAIN update_dict THEN base_dict[key]
        ELSE IF key \in DOMAIN base_dict
             THEN MergeSection(base_dict[key], update_dict[key])
             ELSE update_dict[key]]

\* Config.__init__: config_file or project_root / 'config' / 'config.yaml'.
\* The value of -c is the str argparse made of it; the default is a Path.
ConfigPath(config_given) ==
    IF config_given THEN [str |-> TRUE] ELSE [Path |-> TRUE]

\* self.defaults once load_config has returned.  config = self.defaults.copy()
\* copies the top level only, so the sections _deep_update recurses into
\* are the dictionaries of self.defaults themselves; a key that is new at
\* the top level lands in the copy alone.
Config_defaults(config_path, user_config) ==
    IF "Path" \notin DOMAIN config_path \/ user_config = NoFile THEN Defaults
    ELSE [key \in DOMAIN Defaults |->
            IF key \in DOMAIN user_config
            THEN MergeSection(Defaults[key], user_config[key])
            ELSE Defaults[key]]

\* a str has no exists(): the AttributeError is caught inside load_config
\* and the defaults are returned, whatever the file holds
load_config(config_path, user_config) ==
    IF "Path" \notin DOMAIN config_path THEN Defaults
    ELSE IF user_config = NoFile THEN Defaults
    ELSE _deep_update(Defaults, user_config)

(***************************************************************************)
(* The inputs: answers of the operating system to the probes, and          *)
(* configuration files.                                                    *)
(***************************************************************************)
CpuValues == {800, 801, 901}
LoadValues == {20, 21}
MemValues == {850, 851, 920, 950, 960}
TempValues == {700, 701, 810}
PingValues == {"ok", "fail", "raise"}

CpuAnswers ==
    {[ok |-> FALSE, percent |-> 0, load1 |-> 0]} \cup
    {[ok |-> TRUE, percent |-> c, load1 |-> l] : c \in CpuValues, l \in LoadValues}

MemAnswers ==
    {[ok |-> FALSE, percent |-> 0]} \cup
    {[ok |-> TRUE, percent |-> v] : v \in MemValues}

Partition(mp, readable, used, total) ==
    [mountpoint |-> mp, readable |-> readable, used |-> used, total |-> total]

RootPartitions ==
    {Partition("/", FALSE, 0, 0), Partition("/", TRUE, 0, 0)} \cup
    {Partition("/", TRUE, u, 1000) : u \in {900, 901, 960}} \cup
    {Partition("/", TRUE, 2, 3), Partition("/", TRUE, 3, 400)}

HomePartitions ==
    {Partition("/home", FALSE, 0, 0), Partition("/home", TRUE, 0, 0),
     Partition("/home", TRUE, 951, 1000)}

DiskAnswers ==
    {[ok |-> FALSE, parts |-> <<>>]} \cup
    {[ok |-> TRUE, parts |-> <<r, h>>] : r \in RootPartitions, h \in HomePartitions}

TempAnswers ==
    {[ok |-> FALSE, groups |-> <<>>], [ok |-> TRUE, groups |-> <<>>]} \cup
    {[ok |-> TRUE, groups |-> <<[name |-> "coretemp", entries |-> e]>>] :
        e \in SeqsUpTo(TempValues, MaxEntries) \ {<<>>}}

ConnAnswers == [1..Len(test_hosts) -> PingValues]

OkFlag == {[ok |-> TRUE], [ok |-> FALSE]}

Answer(c, m, d, n, pr, t, cn) ==
    [cpu |-> c, memory |-> m, disk |-> d, network |-> n, processes |-> pr,
     temperature |-> t, connectivity |-> cn]

\* every probe answers and nothing exceeds a default threshold
QuietAnswer ==
    Answer([ok |-> TRUE, percent |-> 800, load1 |-> 20],
           [ok |-> TRUE, percent |-> 850],
           [ok |-> TRUE, parts |-> <<Partition("/", TRUE, 900, 1000),
                                     Partition("/home", TRUE, 0, 0)>>],
           [ok |-> TRUE], [ok |-> TRUE],
           [ok |-> TRUE, groups |-> <<[name |-> "coretemp", entries |-> <<700>>]>>],
           [i \in 1..Len(test_hosts) |-> "ok"])

\* every probe answers and everything exceeds its default threshold
LoudAnswer ==
    Answer([ok |-> TRUE, percent |-> 901, load1 |-> 21],
           [ok |-> TRUE, percent |-> 960],
           [ok |-> TRUE, parts |-> <<Partition("/", TRUE, 960, 1000),
                                     Partition("/home", TRUE, 951, 1000)>>],
           [ok |-> TRUE], [ok |-> TRUE],
           [ok |-> TRUE, groups |-> <<[name |-> "coretemp", entries |-> <<810>>]>>],
           [i \in 1..Len(test_hosts) |-> "fail"])

\* every probe fails
FailedAnswer ==
    Answer([ok |-> FALSE, percent |-> 0, load1 |-> 0],
           [ok |-> FALSE, percent |-> 0],
           [ok |-> FALSE, parts |-> <<>>],
           [ok |-> FALSE], [ok |-> FALSE],
           [ok |-> FALSE, groups |-> <<>>],
           [i \in 1..Len(test_hosts) |-> "raise"])

BaseAnswers == {QuietAnswer, LoudAnswer, FailedAnswer}

\* each probe ranges over all its answers against each base answer
EvalAnswers ==
    UNION {
        {[b EXCEPT !.cpu = c] : c \in CpuAnswers} \cup
        {[b EXCEPT !.memory = m] : m \in MemAnswers} \cup
        {[b EXCEPT !.disk = d] : d \in DiskAnswers} \cup
        {[b EXCEPT !.network = n] : n \in OkFlag} \cup
        {[b EXCEPT !.processes = n] : n \in OkFlag} \cup
        {[b EXCEPT !.temperature = t] : t \in TempAnswers} \cup
        {[b EXCEPT !.connectivity = cn] : cn \in ConnAnswers}
        : b \in BaseAnswers}

AltThresholds ==
    [cpu_percent |-> 900, memory_percent |-> 950, disk_percent |-> 950,
     load_average |-> 10, temperature |-> 800]

NegativeThresholds ==
    [cpu_percent |-> -10, memory_percent |-> -10, disk_percent |-> -10,
     load_average |-> -10, temperature |-> -10]

ThresholdFiles ==
    {<<>>, [thresholds |-> AltThresholds], [thresholds |-> NegativeThresholds],
     [thresholds |-> [memory_percent |-> 900]]}

MonitoringFiles ==
    {[monitoring |-> [check_temperature |-> t, check_network |-> n,
                      check_processes |-> p]] : t, n, p \in BOOLEAN}

EvalFiles ==
    {NoFile} \cup ThresholdFiles \cup MonitoringFiles \cup
    {[thresholds |-> NegativeThresholds] @@ f : f \in MonitoringFiles}

(***************************************************************************)
(* The notification channels.  env is what the transport does: the SMTP    *)
(* session either goes through ("ok") or raises; the webhook POST answers  *)
(* with an HTTP status or raises (connection error, timeout).  A result    *)
(* is what send_alert did: raised is TRUE when an exception leaves it.     *)
(***************************************************************************)
SmtpOutcomes == {"ok", "raise"}
PostOutcomes == {"200", "204", "500", "raise"}

\* no webhook payload was built
NoPayload == [built |-> FALSE]

Outcome(batch, returned, transmitted) ==
    [called |-> TRUE, batch |-> batch, returned |-> returned,
     transmitted |-> transmitted, raised |-> FALSE, payload |-> NoPayload]

Raised(batch) ==
    [called |-> TRUE, batch |-> batch, returned |-> FALSE,
     transmitted |-> FALSE, raised |-> TRUE, payload |-> NoPayload]

NotCalled ==
    [called |-> FALSE, batch |-> <<>>, returned |-> FALSE,
     transmitted |-> FALSE, raised |-> FALSE, payload |-> NoPayload]

\* the try block of send_alert is missing: the SMTP error leaves the method
EmailNotifier_send_alert_NoCatch(email, batch, env) ==
    IF ~email.enabled THEN Outcome(batch, TRUE, FALSE)
    ELSE IF env = "ok" THEN Outcome(batch, TRUE, TRUE)
    ELSE Raised(batch)

EmailNotifier_send_alert(email, batch, env) ==
    IF ~email.enabled THEN Outcome(batch, TRUE, FALSE)
    ELSE IF env = "ok" THEN Outcome(batch, TRUE, TRUE)
    ELSE Outcome(batch, FALSE, FALSE)

severity_colors ==
    [critical |-> "#f44336", warning |-> "#ff9800", info |-> "#2196f3"]

HasSeverity(batch, severity) ==
    \E i \in 1..Len(batch) :
        "severity" \in DOMAIN batch[i] /\ batch[i].severity = severity

\* the critical test is forgotten: a warning in the batch decides first
_create_attachment_WarningFirst(batch) ==
    LET overall_severity ==
            IF HasSeverity(batch, "warning") THEN "warning"
            ELSE IF HasSeverity(batch, "critical") THEN "critical"
            ELSE "info"
    IN  [built |-> TRUE,
         color |-> severity_colors[overall_severity],
         text |-> Len(batch),
         fields |-> [i \in 1..(IF Len(batch) > 5 THEN 5 ELSE Len(batch)) |->
                        batch[i].type]]

\* SlackNotifier._create_attachment: colour, text and the alert fields
_create_attachment(batch) ==
    LET overall_severity ==
            IF HasSeverity(batch, "critical") THEN "critical"
            ELSE IF HasSeverity(batch, "warning") THEN "warning"
            ELSE "info"
    IN  [built |-> TRUE,
         color |-> severity_colors[overall_severity],
         text |-> Len(batch),
         fields |-> [i \in 1..(IF Len(batch) > 5 THEN 5 ELSE Len(batch)) |->
                        batch[i].type]]

SlackNotifier_send_alert(slack, batch, env) ==
    IF ~slack.enabled \/ slack.webhook_url = "" THEN Outcome(batch, TRUE, FALSE)
    ELSE LET payload == _create_attachment(batch)
         IN  IF env = "raise"
             THEN [Outcome(batch, FALSE, FALSE) EXCEPT !.payload = payload]
             ELSE IF env = "200"
             THEN [Outcome(batch, TRUE, TRUE) EXCEPT !.payload = payload]
             ELSE [Outcome(batch, FALSE, TRUE) EXCEPT !.payload = payload]

\* the channels a webhook POST reaches: the payload's 'channel'
SlackChannels(slack) == {slack.channel}

\* SystemMonitor.__init__: a handler exists only for an enabled channel
email_handler(cfg) == cfg.email.enabled
slack_handler(cfg) == cfg.slack.enabled

(***************************************************************************)
(* ServerMonitorApp.run_once, as the values it computes from the probe     *)
(* answers p, the transports' behaviour and the state before the call.     *)
(***************************************************************************)
\* lst[start:] of Python, for any integer start
SliceFrom(lst, start) ==
    LET from == IF start < 0
                THEN (IF Len(lst) + start < 0 THEN 0 ELSE Len(lst) + start)
                ELSE (IF start > Len(lst) THEN Len(lst) ELSE start)
    IN  SubSeq(lst, from + 1, Len(lst))

\* the slice keeps the head of the list: history[:max_history]
LimitHistory_KeepOldest(h, max_history) ==
    IF Len(h) > max_history THEN SubSeq(h, 1, max_history) ELSE h

LimitHistory(h, max_history) ==
    IF Len(h) > max_history THEN SliceFrom(h, 0 - max_history) ELSE h

AlertKey(a) ==
    [type |-> a.type,
     scope |-> IF "mountpoint" \in DOMAIN a THEN a.mountpoint
               ELSE IF "sensor_name" \in DOMAIN a.message THEN a.message.sensor_name
               ELSE ""]

Keys(as) == {AlertKey(as[i]) : i \in 1..Len(as)}

\* a batch is sent only if none of its keys is in the history
run_once_Dedup(cfg, hist, t, p, send_alerts, smtp, post) ==
    LET m == collect_metrics(cfg, t, p)
        failed == check_thresholds_raises(cfg, m)
        a == IF failed THEN <<>> ELSE check_thresholds(cfg, m)
        seen == UNION {Keys(hist[i].alerts) : i \in 1..Len(hist)}
        dispatch == a # <<>> /\ send_alerts /\ Keys(a) \cap seen = {}
        email == IF dispatch /\ email_handler(cfg)
                 THEN EmailNotifier_send_alert(cfg.email, a, smtp)
                 ELSE NotCalled
        slack == IF dispatch /\ slack_handler(cfg) /\ ~email.raised
                 THEN SlackNotifier_send_alert(cfg.slack, a, post)
                 ELSE NotCalled
        raised == failed \/ email.raised \/ slack.raised
        result == [metrics |-> m, alerts |-> a, alert_count |-> Len(a)]
    IN  [metrics |-> m, alerts |-> a, email |-> email, slack |-> slack,
         raised |-> raised,
         history |-> IF raised THEN hist
                     ELSE LimitHistory(Append(hist, result),
                                       cfg.monitoring.history_size),
         result |-> result]

\* alert_count counts the alerts that were handed to the channels
run_once_CountSent(cfg, hist, t, p, send_alerts, smtp, post) ==
    LET m == collect_metrics(cfg, t, p)
        failed == check_thresholds_raises(cfg, m)
        a == IF failed THEN <<>> ELSE check_thresholds(cfg, m)
        dispatch == a # <<>> /\ send_alerts
        email == IF dispatch /\ email_handler(cfg)
                 THEN EmailNotifier_send_alert(cfg.email, a, smtp)
                 ELSE NotCalled
        slack == IF dispatch /\ slack_handler(cfg) /\ ~email.raised
                 THEN SlackNotifier_send_alert(cfg.slack, a, post)
                 ELSE NotCalled
        raised == failed \/ email.raised \/ slack.raised
        result == [metrics |-> m, alerts |-> a, alert_count |-> IF dispatch THEN Len(a) ELSE 0]
    IN  [metrics |-> m, alerts |-> a, email |-> email, slack |-> slack,
         raised |-> raised,
         history |-> IF raised THEN hist
                     ELSE LimitHistory(Append(hist, result),
                                       cfg.monitoring.history_size),
         result |-> result]

\* an alert whose key was in the previous result is not raised again
run_once_SuppressRepeated(cfg, hist, t, p, send_alerts, smtp, post) ==
    LET m == collect_metrics(cfg, t, p)
        failed == check_thresholds_raises(cfg, m)
        known == IF hist = <<>> THEN {} ELSE Keys(hist[Len(hist)].alerts)
        a == IF failed THEN <<>>
             ELSE SelectSeq(check_thresholds(cfg, m),
                            LAMBDA x : AlertKey(x) \notin known)
        dispatch == a # <<>> /\ send_alerts
        email == IF dispatch /\ email_handler(cfg)
                 THEN EmailNotifier_send_alert(cfg.email, a, smtp)
                 ELSE NotCalled
        slack == IF dispatch /\ slack_handler(cfg) /\ ~email.raised
                 THEN SlackNotifier_send_alert(cfg.slack, a, post)
                 ELSE NotCalled
        raised == failed \/ email.raised \/ slack.raised
        result == [metrics |-> m, alerts |-> a, alert_count |-> Len(a)]
    IN  [metrics |-> m, alerts |-> a, email |-> email, slack |-> slack,
         raised |-> raised,
         history |-> IF raised THEN hist
                     ELSE LimitHistory(Append(hist, result),
                                       cfg.monitoring.history_size),
         result |-> result]

run_once(cfg, hist, t, p, send_alerts, smtp, post) ==
    LET m == collect_metrics(cfg, t, p)
        failed == check_thresholds_raises(cfg, m)
        a == IF failed THEN <<>> ELSE check_thresholds(cfg, m)
        dispatch == a # <<>> /\ send_alerts
        email == IF dispatch /\ email_handler(cfg)
                 THEN EmailNotifier_send_alert(cfg.email, a, smtp)
                 ELSE NotCalled
        slack == IF dispatch /\ slack_handler(cfg) /\ ~email.raised
                 THEN SlackNotifier_send_alert(cfg.slack, a, post)
                 ELSE NotCalled
        raised == failed \/ email.raised \/ slack.raised
        result == [metrics |-> m, alerts |-> a, alert_count |-> Len(a)]
    IN  [metrics |-> m, alerts |-> a, email |-> email, slack |-> slack,
         raised |-> raised,
         history |-> IF raised THEN hist
                     ELSE LimitHistory(Append(hist, result),
                                       cfg.monitoring.history_size),
         result |-> result]

\* what get_status_report prints: the cycle it reports on, or nothing
get_status_report(hist) ==
    IF hist = <<>> THEN [available |-> FALSE]
    ELSE [available |-> TRUE,
          timestamp |-> hist[Len(hist)].metrics.timestamp,
          alerts |-> hist[Len(hist)].alerts]

(***************************************************************************)
(* Configuration files and command lines of the application runs.          *)
(***************************************************************************)
RateLimiting(cap) ==
    [enabled |-> TRUE, max_alerts_per_hour |-> cap, cooldown_period |-> 300]

EscalationLevels ==
    <<[threshold_minutes |-> 5, channels |-> {"#monitoring"}],
      [threshold_minutes |-> 15, channels |-> {"#monitoring", "#critical-alerts"}],
      [threshold_minutes |-> 30, channels |-> {"#monitoring", "#critical-alerts"}]>>

AppFile(emailOn, slackOn, url, interval, size, cap) ==
    [email |-> [enabled |-> emailOn],
     slack |-> [enabled |-> slackOn, webhook_url |-> url],
     monitoring |-> [interval |-> interval, history_size |-> size],
     notification_rules |->
        [rate_limiting |-> RateLimiting(cap),
         escalation |-> [enabled |-> TRUE, levels |-> EscalationLevels]]]

WebhookUrl == "https://hooks.slack.com/services/YOUR/SLACK/WEBHOOK"

\* thresholds.temperature is left empty in the file: a YAML null
NullTemperatureFile == [thresholds |-> [temperature |-> NoneValue]]

AppFiles ==
    {NoFile, NullTemperatureFile} \cup
    {AppFile(e, s, u, 10, 2, 10) :
        e \in BOOLEAN, s \in BOOLEAN, u \in {"", WebhookUrl}} \cup
    {AppFile(TRUE, TRUE, WebhookUrl, 300, 2, 2)} \cup
    {AppFile(TRUE, TRUE, WebhookUrl, 300, h, 10) : h \in 0..MaxHist}

\* -q only changes what a one-shot run prints
\* the files a run is pointed at with -c FILE
GivenFiles == {NoFile, AppFile(TRUE, TRUE, WebhookUrl, 10, 2, 10)}

AppArgs ==
    {a \in [config : AppFiles, config_given : BOOLEAN, continuous : BOOLEAN,
            test : BOOLEAN, status : BOOLEAN, quiet : BOOLEAN] :
        /\ a.quiet => ~a.continuous /\ ~a.status
        /\ a.config_given => a.config \in GivenFiles /\ ~a.quiet}

MemAnswer(v) == [QuietAnswer EXCEPT !.memory = [ok |-> TRUE, percent |-> v]]

\* per run, the host is either quiet or in one alerting condition
AppHosts == {{QuietAnswer, MemAnswer(920)}, {QuietAnswer, LoudAnswer}}

NoAnswer == <<>>
\* nothing observed: no stop() call, no signal, no cycle completed
NoObs == [stopCalled |-> FALSE, interruptedAt |-> "none", lastDone |-> -1]
\* no Bash monitor is running
NoShell == [pc |-> "none"]
NoMetrics == <<>>
NoOutput == [printed |-> FALSE]
NoTransport == [smtp |-> "unused", post |-> "unused"]

(***************************************************************************)
(* The application: main, run_once, run_continuous, stop.                  *)
(***************************************************************************)
Init ==
    /\ args \in AppArgs
    /\ config = load_config(ConfigPath(args.config_given), args.config)
    /\ defaults = Config_defaults(ConfigPath(args.config_given), args.config)
    /\ pc = "start"
    /\ running = FALSE
    /\ now = 0
    /\ cycles = 0
    /\ history = <<>>
    /\ probe = NoAnswer
    /\ metrics = NoMetrics
    /\ alerts = <<>>
    /\ emailResult = NotCalled
    /\ slackResult = NotCalled
    /\ cycleLog = <<>>
    /\ transport = NoTransport
    /\ host \in AppHosts
    \* only --status is about what an earlier run left behind
    /\ earlier \in IF args.status THEN BOOLEAN ELSE {FALSE}
    /\ sh = NoShell
    /\ obs = NoObs
    /\ output = NoOutput
    /\ exitCode = -1

\* the effect of one run_once call on the monitor's state
Cycle(r, p, smtp, post) ==
    /\ probe' = p
    /\ transport' = [smtp |-> IF r.email.called THEN smtp ELSE "unused",
                      post |-> IF r.slack.called THEN post ELSE "unused"]
    /\ metrics' = r.metrics
    /\ alerts' = r.alerts
    /\ emailResult' = r.email
    /\ slackResult' = r.slack
    /\ history' = r.history
    /\ cycles' = cycles + 1
    \* only a cycle that ran to its end is logged
    /\ cycleLog' = IF r.raised THEN cycleLog
                   ELSE Append(cycleLog,
                          [t |-> now,
                           keys |-> Keys(r.alerts),
                           sent |-> r.email.transmitted \/ r.slack.transmitted,
                           posted |-> IF r.slack.transmitted
                                      THEN SlackChannels(config.slack)
                                      ELSE {}])

\* main: setup_logging or another constructor raises; main reports and exits 1
StartFail ==
    /\ pc = "start"
    /\ pc' = "done"
    /\ exitCode' = 1
    /\ UNCHANGED <<config, defaults, args, running, now, cycles, history, probe, metrics,
                   alerts, emailResult, slackResult, cycleLog, transport,
                   host, earlier, sh, obs, output>>

\* main --status
MainStatus ==
    /\ pc = "start"
    /\ args.status
    /\ output' = [printed |-> TRUE, report |-> get_status_report(history)]
    /\ pc' = "done"
    /\ exitCode' = 0
    /\ UNCHANGED <<config, defaults, args, running, now, cycles, history, probe, metrics,
                   alerts, emailResult, slackResult, cycleLog, transport,
                   host, earlier, sh, obs>>

\* main without --status and --continuous: one cycle, the report, sys.exit
MainOnce ==
    /\ pc = "start"
    /\ ~args.status /\ ~args.continuous
    /\ \E p \in host, smtp \in SmtpOutcomes, post \in PostOutcomes :
          LET r == run_once(config, history, now, p, ~args.test, smtp, post)
          IN  /\ Cycle(r, p, smtp, post)
              /\ output' = IF args.quiet \/ r.raised THEN NoOutput
                           ELSE [printed |-> TRUE,
                                 report |-> get_status_report(r.history)]
              /\ exitCode' = IF r.raised THEN 1
                             ELSE IF r.result.alert_count > 0 THEN 1 ELSE 0
    /\ pc' = "done"
    /\ UNCHANGED <<config, defaults, args, running, now, host, earlier, sh, obs>>

\* main --continuous: run_continuous up to the first loop test
MainContinuous ==
    /\ pc = "start"
    /\ ~args.status /\ args.continuous
    /\ running' = TRUE
    /\ pc' = "loop"
    /\ UNCHANGED <<config, defaults, args, now, cycles, history, probe, metrics, alerts,
                   emailResult, slackResult, cycleLog, transport,
                   host, earlier, sh, obs, output, exitCode>>

\* run_continuous: while self.running: self.run_once()
LoopCycle ==
    /\ pc = "loop"
    /\ running
    /\ cycles < MaxCycles
    /\ \E p \in host, smtp \in SmtpOutcomes, post \in PostOutcomes :
          LET r == run_once(config, history, now, p, TRUE, smtp, post)
          IN  /\ Cycle(r, p, smtp, post)
              /\ pc' = IF r.raised THEN "done" ELSE "sleep"
              /\ running' = IF r.raised THEN FALSE ELSE running
              /\ exitCode' = IF r.raised THEN 0 ELSE exitCode
    /\ UNCHANGED <<config, defaults, args, now, output, host, earlier, sh, obs>>

\* the loop goes on to the next test without sleeping
Sleep_NoWait ==
    /\ pc = "sleep"
    /\ pc' = "loop"
    /\ UNCHANGED <<config, defaults, args, running, now, cycles, history, probe, metrics,
                   alerts, emailResult, slackResult, cycleLog, transport,
                   host, earlier, sh, obs, output, exitCode>>

\* run_continuous: time.sleep(interval)
Sleep ==
    /\ pc = "sleep"
    /\ now' = now + config.monitoring.interval
    /\ pc' = "loop"
    /\ UNCHANGED <<config, defaults, args, running, cycles, history, probe, metrics,
                   alerts, emailResult, slackResult, cycleLog, transport,
                   host, earlier, sh, obs, output, exitCode>>

\* run_continuous: the loop test fails, finally: running = False, main returns
LoopExit ==
    /\ pc = "loop"
    /\ ~running
    /\ pc' = "done"
    /\ exitCode' = 0
    /\ UNCHANGED <<config, defaults, args, running, now, cycles, history, probe, metrics,
                   alerts, emailResult, slackResult, cycleLog, transport,
                   host, earlier, sh, obs, output>>

\* stop(), called while run_continuous is between two statements
Stop ==
    /\ pc \in {"loop", "sleep"}
    /\ running
    /\ running' = FALSE
    /\ UNCHANGED <<config, defaults, args, pc, now, cycles, history, probe, metrics,
                   alerts, emailResult, slackResult, cycleLog, transport,
                   host, earlier, sh, obs, output, exitCode>>

\* KeyboardInterrupt between two cycles or during the sleep
Interrupt ==
    /\ pc \in {"loop", "sleep"}
    /\ running' = FALSE
    /\ pc' = "done"
    /\ exitCode' = 0
    /\ UNCHANGED <<config, defaults, args, now, cycles, history, probe, metrics, alerts,
                   emailResult, slackResult, cycleLog, transport,
                   host, earlier, sh, obs, output>>

Next ==
    \/ StartFail
    \/ MainStatus
    \/ MainOnce
    \/ MainContinuous
    \/ LoopCycle
    \/ Sleep
    \/ LoopExit
    \/ Stop
    \/ Interrupt

Spec == Init /\ [][Next]_vars

(***************************************************************************)
(* A continuous run with the default configuration on a host where only    *)
(* the memory reading moves from cycle to cycle.                           *)
(***************************************************************************)
MemoryReadings == {850, 920, 950, 960}

MemoryHost == {MemAnswer(v) : v \in MemoryReadings}

InitMemory ==
    /\ args = [config |-> NoFile, config_given |-> FALSE, continuous |-> TRUE,
               test |-> FALSE, status |-> FALSE, quiet |-> FALSE]
    /\ config = load_config(ConfigPath(args.config_given), args.config)
    /\ defaults = Config_defaults(ConfigPath(args.config_given), args.config)
    /\ pc = "start"
    /\ running = FALSE
    /\ now = 0
    /\ cycles = 0
    /\ history = <<>>
    /\ probe = NoAnswer
    /\ metrics = NoMetrics
    /\ alerts = <<>>
    /\ emailResult = NotCalled
    /\ slackResult = NotCalled
    /\ cycleLog = <<>>
    /\ transport = NoTransport
    /\ host = MemoryHost
    /\ earlier = FALSE
    /\ sh = NoShell
    /\ obs = NoObs
    /\ output = NoOutput
    /\ exitCode = -1

NextMemory ==
    \/ StartFail
    \/ MainContinuous
    \/ LoopCycle
    \/ Sleep
    \/ LoopExit
    \/ Stop
    \/ Interrupt

SpecMemory == InitMemory /\ [][NextMemory]_vars

(***************************************************************************)
(* SlackNotifier.send_alert on its own: one call for every alert batch,    *)
(* with the channel enabled and a webhook URL configured.                  *)
(***************************************************************************)
MaxBatch == 3

\* alerts as a caller may hand them over: any severity, or none
BatchAlerts ==
    {[type |-> "memory_high", severity |-> sv] :
        sv \in {"critical", "warning", "info"}} \cup
    {[type |-> "custom"]}

InitAttach ==
    /\ args = [config |-> AppFile(FALSE, TRUE, WebhookUrl, 10, 2, 10),
               config_given |-> FALSE, continuous |-> FALSE,
               test |-> FALSE, status |-> FALSE, quiet |-> FALSE]
    /\ config = load_config(ConfigPath(args.config_given), args.config)
    /\ defaults = Config_defaults(ConfigPath(args.config_given), args.config)
    /\ pc = "attach"
    /\ running = FALSE
    /\ now = 0
    /\ cycles = 0
    /\ history = <<>>
    /\ probe = NoAnswer
    /\ metrics = NoMetrics
    /\ alerts \in SeqsUpTo(BatchAlerts, MaxBatch)
    /\ emailResult = NotCalled
    /\ slackResult = NotCalled
    /\ cycleLog = <<>>
    /\ transport = NoTransport
    /\ host = {}
    /\ earlier = FALSE
    /\ sh = NoShell
    /\ obs = NoObs
    /\ output = NoOutput
    /\ exitCode = -1

SendSlack ==
    /\ pc = "attach"
    /\ \E post \in PostOutcomes :
          /\ slackResult' = SlackNotifier_send_alert(config.slack, alerts, post)
          /\ transport' = [transport EXCEPT !.post = post]
    /\ pc' = "attached"
    /\ UNCHANGED <<config, defaults, args, running, now, cycles, history, probe, metrics,
                   alerts, emailResult, cycleLog, host, earlier, sh, obs, output,
                   exitCode>>

NextAttach == SendSlack

SpecAttach == InitAttach /\ [][NextAttach]_vars

(***************************************************************************)
(* check_thresholds on its own: one collection and one evaluation for      *)
(* every probe answer and every threshold configuration.                   *)
(***************************************************************************)
InitEval ==
    /\ args \in [config : EvalFiles, config_given : {FALSE},
                 continuous : {FALSE}, test : {FALSE},
                 status : {FALSE}, quiet : {FALSE}]
    /\ config = load_config(ConfigPath(args.config_given), args.config)
    /\ defaults = Config_defaults(ConfigPath(args.config_given), args.config)
    /\ probe \in EvalAnswers
    /\ pc = "collect"
    /\ running = FALSE
    /\ now = 0
    /\ cycles = 0
    /\ history = <<>>
    /\ metrics = NoMetrics
    /\ alerts = <<>>
    /\ emailResult = NotCalled
    /\ slackResult = NotCalled
    /\ cycleLog = <<>>
    /\ transport = NoTransport
    /\ host = {probe}
    /\ earlier = FALSE
    /\ sh = NoShell
    /\ obs = NoObs
    /\ output = NoOutput
    /\ exitCode = -1

Evaluate ==
    /\ pc = "collect"
    /\ metrics' = collect_metrics(config, now, probe)
    /\ alerts' = check_thresholds(config, metrics')
    /\ pc' = "evaluated"
    /\ UNCHANGED <<config, defaults, args, running, now, cycles, history, probe,
                   emailResult, slackResult, cycleLog, transport,
                   host, earlier, sh, obs, output, exitCode>>

NextEval == Evaluate

SpecEval == InitEval /\ [][NextEval]_vars

OneIf(cond) == IF cond THEN 1 ELSE 0

(***************************************************************************)
(* run_continuous and run_once statement by statement: the loop test, the  *)
(* collection, the evaluation, the two sends, the history append and the   *)
(* sleep are separate steps, so that stop() and KeyboardInterrupt can fall *)
(* between any two of them and a send can block.                           *)
(***************************************************************************)
StepFiles == {AppFile(TRUE, TRUE, WebhookUrl, 10, 2, 10), NullTemperatureFile}

StepHosts == {{QuietAnswer, MemAnswer(920)}, {QuietAnswer, LoudAnswer}}

\* smtplib.SMTP is opened without a timeout: a silent server blocks it
SmtpBehaviours == SmtpOutcomes \cup {"hang"}

InitSteps ==
    /\ args \in [config : StepFiles, config_given : {FALSE},
                 continuous : {TRUE}, test : {FALSE}, status : {FALSE},
                 quiet : {FALSE}]
    /\ config = load_config(ConfigPath(args.config_given), args.config)
    /\ defaults = Config_defaults(ConfigPath(args.config_given), args.config)
    /\ pc = "start"
    /\ running = FALSE
    /\ now = 0
    /\ cycles = 0
    /\ history = <<>>
    /\ probe = NoAnswer
    /\ metrics = NoMetrics
    /\ alerts = <<>>
    /\ emailResult = NotCalled
    /\ slackResult = NotCalled
    /\ cycleLog = <<>>
    /\ transport = NoTransport
    /\ host \in StepHosts
    /\ earlier = FALSE
    /\ sh = NoShell
    /\ obs = NoObs
    /\ output = NoOutput
    /\ exitCode = -1

\* run_continuous: while self.running, taken
StepLoopTest ==
    /\ pc = "loop"
    /\ running
    /\ cycles < MaxCycles
    /\ pc' = "collect"
    /\ UNCHANGED <<config, defaults, args, running, now, cycles, history, probe, metrics,
                   alerts, emailResult, slackResult, cycleLog, transport,
                   host, earlier, sh, obs, output, exitCode>>

\* run_once: metrics = self.monitor.collect_metrics()
StepCollect ==
    /\ pc = "collect"
    /\ \E p \in host :
          /\ probe' = p
          /\ metrics' = collect_metrics(config, now, p)
    /\ alerts' = <<>>
    /\ emailResult' = NotCalled
    /\ slackResult' = NotCalled
    /\ transport' = NoTransport
    /\ pc' = "evaluate"
    /\ UNCHANGED <<config, defaults, args, running, now, cycles, history, cycleLog,
                   host, earlier, sh, obs, output, exitCode>>

\* the test `if alerts and send_alerts` is left out: the sends always run
StepEvaluate_AlwaysSend ==
    /\ pc = "evaluate"
    /\ IF check_thresholds_raises(config, metrics)
       THEN /\ pc' = "done"
            /\ running' = FALSE
            /\ exitCode' = 0
            /\ UNCHANGED alerts
       ELSE /\ alerts' = check_thresholds(config, metrics)
            /\ pc' = "email"
            /\ UNCHANGED <<running, exitCode>>
    /\ UNCHANGED <<config, defaults, args, now, cycles, history, probe, metrics,
                   emailResult, slackResult, cycleLog, transport,
                   host, earlier, sh, obs, output>>

\* run_once: alerts = self.monitor.check_thresholds(metrics), and the test
\* `if alerts and send_alerts`; a TypeError leaves run_once and the loop
StepEvaluate ==
    /\ pc = "evaluate"
    /\ IF check_thresholds_raises(config, metrics)
       THEN /\ pc' = "done"
            /\ running' = FALSE
            /\ exitCode' = 0
            /\ UNCHANGED alerts
       ELSE /\ alerts' = check_thresholds(config, metrics)
            /\ pc' = IF alerts' # <<>> THEN "email" ELSE "append"
            /\ UNCHANGED <<running, exitCode>>
    /\ UNCHANGED <<config, defaults, args, now, cycles, history, probe, metrics,
                   emailResult, slackResult, cycleLog, transport,
                   host, earlier, sh, obs, output>>

\* run_once: if self.monitor.email_handler: email_handler.send_alert(...)
StepEmail ==
    /\ pc = "email"
    /\ IF ~email_handler(config)
       THEN /\ pc' = "slack"
            /\ UNCHANGED <<emailResult, transport>>
       ELSE \E smtp \in SmtpBehaviours :
               /\ transport' = [transport EXCEPT !.smtp = smtp]
               /\ IF smtp = "hang"
                  THEN /\ pc' = "email_blocked"
                       /\ UNCHANGED emailResult
                  ELSE /\ pc' = "slack"
                       /\ emailResult' =
                             EmailNotifier_send_alert(config.email, alerts, smtp)
    /\ UNCHANGED <<config, defaults, args, running, now, cycles, history, probe, metrics,
                   alerts, slackResult, cycleLog, host, earlier, sh, obs,
                   output, exitCode>>

\* run_once: if self.monitor.slack_handler: slack_handler.send_alert(...);
\* requests.post has timeout=10, a silent endpoint ends as an exception
StepSlack ==
    /\ pc = "slack"
    /\ IF ~slack_handler(config)
       THEN UNCHANGED <<slackResult, transport>>
       ELSE \E post \in PostOutcomes :
               /\ transport' = [transport EXCEPT !.post = post]
               /\ slackResult' =
                     SlackNotifier_send_alert(config.slack, alerts, post)
    /\ pc' = "append"
    /\ UNCHANGED <<config, defaults, args, running, now, cycles, history, probe, metrics,
                   alerts, emailResult, cycleLog, host, earlier, sh, obs,
                   output, exitCode>>

\* run_once: history.append(result), the size limit, return
StepAppend ==
    /\ pc = "append"
    /\ history' = LimitHistory(
                     Append(history, [metrics |-> metrics, alerts |-> alerts,
                                      alert_count |-> Len(alerts)]),
                     config.monitoring.history_size)
    /\ cycles' = cycles + 1
    /\ obs' = [obs EXCEPT !.lastDone = now]
    /\ pc' = "sleep"
    /\ UNCHANGED <<config, defaults, args, running, now, probe, metrics, alerts,
                   emailResult, slackResult, cycleLog, transport, host,
                   earlier, sh, output, exitCode>>

\* stop(), called from outside at any moment, before run_continuous included
StepStop ==
    /\ pc # "done"
    /\ ~obs.stopCalled
    /\ running' = FALSE
    /\ obs' = [obs EXCEPT !.stopCalled = TRUE]
    /\ UNCHANGED <<config, defaults, args, pc, now, cycles, history, probe, metrics,
                   alerts, emailResult, slackResult, cycleLog, transport,
                   host, earlier, sh, output, exitCode>>

\* KeyboardInterrupt raised at the statement run_continuous is at: it is
\* not an Exception, so no handler inside run_once catches it; the except
\* clause of run_continuous logs it and finally clears running
StepInterrupt ==
    /\ pc \in {"loop", "collect", "evaluate", "email", "email_blocked",
               "slack", "append", "sleep"}
    /\ obs' = [obs EXCEPT !.interruptedAt = pc]
    /\ running' = FALSE
    /\ pc' = "done"
    /\ exitCode' = 0
    /\ UNCHANGED <<config, defaults, args, now, cycles, history, probe, metrics, alerts,
                   emailResult, slackResult, cycleLog, transport, host,
                   earlier, sh, output>>

\* the statements of the program itself
ProgramStep ==
    \/ MainContinuous
    \/ StepLoopTest
    \/ StepCollect
    \/ StepEvaluate
    \/ StepEmail
    \/ StepSlack
    \/ StepAppend
    \/ Sleep
    \/ LoopExit

NextSteps ==
    \/ MainContinuous
    \/ StepLoopTest
    \/ StepCollect
    \/ StepEvaluate
    \/ StepEmail
    \/ StepSlack
    \/ StepAppend
    \/ Sleep
    \/ LoopExit
    \/ StepStop
    \/ StepInterrupt

SpecSteps == InitSteps /\ [][NextSteps]_vars

\* the interpreter keeps executing the program's statements
SpecStepsLive == SpecSteps /\ WF_vars(ProgramStep)

(***************************************************************************)
(* The Bash monitor (bash_monitor_system.sh, held in src/script_1.py): the *)
(* configuration section, main and run_monitoring.  sh.env holds the shell *)
(* variables of the channels; the thresholds are the defaults in tenths.   *)
(***************************************************************************)
MaxArgs == 3

BashThresholds ==
    [CPU_THRESHOLD |-> 800, MEMORY_THRESHOLD |-> 850, DISK_THRESHOLD |-> 900,
     LOAD_THRESHOLD |-> 20]

\* ${VAR:-default} of the configuration section
BashDefaults ==
    [EMAIL_ENABLED |-> "true", EMAIL_TO |-> "admin@company.com",
     SLACK_ENABLED |-> "false", SLACK_WEBHOOK_URL |-> ""]

\* config/monitoring.conf as shipped
monitoring_conf ==
    [EMAIL_ENABLED |-> "true", EMAIL_TO |-> "admin@company.com",
     SLACK_ENABLED |-> "false", SLACK_WEBHOOK_URL |-> ""]

\* a configuration file that turns the Slack channel on
slack_conf ==
    [SLACK_ENABLED |-> "true", SLACK_WEBHOOK_URL |-> WebhookUrl]

\* the files -c may name; missing.conf does not exist
BashFiles ==
    [name \in {"monitoring.conf", "slack.conf", "missing.conf"} |->
        CASE name = "monitoring.conf" -> monitoring_conf
          [] name = "slack.conf" -> slack_conf
          [] name = "missing.conf" -> NoFile]

BashTokens == {"-t", "-q", "-c"} \cup DOMAIN BashFiles

BashArgvs == SeqsUpTo(BashTokens, MaxArgs)

\* source FILE: the assignments of the file replace the shell's values
BashSource(env, file) ==
    [k \in DOMAIN env \cup DOMAIN file |->
        IF k \in DOMAIN file THEN file[k] ELSE env[k]]

\* VAR=${VAR:-default}: an unset or empty variable takes the default
BashApplyDefaults(env) ==
    [k \in DOMAIN BashDefaults |->
        IF k \in DOMAIN env /\ env[k] # "" THEN env[k] ELSE BashDefaults[k]]

\* the configuration section: the default file, if there, then the defaults
BashConfigSection(default_file) ==
    BashApplyDefaults(IF default_file = NoFile THEN <<>>
                      ELSE BashSource(<<>>, default_file))

BashReadings ==
    [cpu : {800, 901}, memory : {850, 920}, disk : {500}, load : {10},
     network : {TRUE}]

\* the checks of run_monitoring that call send_alert, in order
BashTriggered(r) ==
    OneIf(r.cpu > BashThresholds.CPU_THRESHOLD)
    + OneIf(r.memory > BashThresholds.MEMORY_THRESHOLD)
    + OneIf(r.disk > BashThresholds.DISK_THRESHOLD)
    + OneIf(r.load > BashThresholds.LOAD_THRESHOLD)
    + OneIf(~r.network)

\* validate_config: the channel settings
validate_config(env) ==
    /\ env.EMAIL_ENABLED = "true" => env.EMAIL_TO # ""
    /\ env.SLACK_ENABLED = "true" => env.SLACK_WEBHOOK_URL # ""

\* send_email_alert hands one message to mail or sendmail
send_email_alert(env, mailer) ==
    IF env.EMAIL_ENABLED = "true" /\ mailer \in {"mail", "sendmail"}
    THEN 1 ELSE 0

\* send_slack_alert posts one payload with curl
send_slack_alert(env, curl) ==
    IF env.SLACK_ENABLED = "true" /\ env.SLACK_WEBHOOK_URL # "" /\ curl
    THEN 1 ELSE 0

InitBash ==
    /\ args = [config |-> NoFile, config_given |-> FALSE, continuous |-> FALSE,
               test |-> FALSE, status |-> FALSE, quiet |-> FALSE]
    /\ config = Defaults
    /\ defaults = Defaults
    /\ pc = "bash"
    /\ running = FALSE
    /\ now = 0
    /\ cycles = 0
    /\ history = <<>>
    /\ probe = NoAnswer
    /\ metrics = NoMetrics
    /\ alerts = <<>>
    /\ emailResult = NotCalled
    /\ slackResult = NotCalled
    /\ cycleLog = <<>>
    /\ transport = NoTransport
    /\ host = {}
    /\ earlier = FALSE
    /\ \E argv \in BashArgvs, default_file \in {NoFile, monitoring_conf},
          r \in BashReadings :
          sh = [pc |-> "parse", argv |-> argv, line |-> argv,
                env |-> BashConfigSection(default_file),
                readings |-> r, custom_config |-> "", test_mode |-> FALSE,
                quiet |-> FALSE, mails |-> 0, posts |-> 0,
                alerts_triggered |-> 0, exit |-> -1]
    /\ obs = NoObs
    /\ output = NoOutput
    /\ exitCode = -1

\* main: one turn of the while [[ $# -gt 0 ]] loop
BashParseArg ==
    /\ sh.pc = "parse"
    /\ sh.argv # <<>>
    /\ LET opt == Head(sh.argv)
       IN  sh' =
             CASE opt = "-t" ->
                    [sh EXCEPT !.test_mode = TRUE,
                               !.env = [@ EXCEPT !.EMAIL_ENABLED = "false",
                                                 !.SLACK_ENABLED = "false"],
                               !.argv = Tail(@)]
               [] opt = "-q" -> [sh EXCEPT !.quiet = TRUE, !.argv = Tail(@)]
               [] opt = "-c" ->
                    \* shift 2 fails and shifts nothing when $# is 1
                    IF Len(sh.argv) >= 2
                    THEN [sh EXCEPT !.custom_config = sh.argv[2],
                                    !.argv = SubSeq(@, 3, Len(@))]
                    ELSE [sh EXCEPT !.custom_config = ""]
               [] OTHER -> [sh EXCEPT !.pc = "done", !.exit = 1]
    /\ UNCHANGED <<config, defaults, args, pc, running, now, cycles, history, probe,
                   metrics, alerts, emailResult, slackResult, cycleLog,
                   transport, host, earlier, obs, output, exitCode>>

\* main after the loop: source the custom file, validate_config,
\* run_monitoring, exit
BashRun ==
    /\ sh.pc = "parse"
    /\ sh.argv = <<>>
    /\ \E mailer \in {"mail", "sendmail", "none"}, curl \in BOOLEAN :
          \* [[ -f "$custom_config" ]]
          LET found == sh.custom_config \in DOMAIN BashFiles
                       /\ BashFiles[sh.custom_config] # NoFile
              env == IF found
                     THEN BashSource(sh.env, BashFiles[sh.custom_config])
                     ELSE sh.env
              triggered == BashTriggered(sh.readings)
          IN  sh' =
                IF sh.custom_config # "" /\ ~found
                THEN [sh EXCEPT !.pc = "done", !.exit = 1]
                ELSE IF ~validate_config(env)
                THEN [sh EXCEPT !.pc = "done", !.env = env, !.exit = 1]
                ELSE [sh EXCEPT !.pc = "done", !.env = env,
                         !.alerts_triggered = triggered,
                         !.mails = triggered * send_email_alert(env, mailer),
                         !.posts = triggered * send_slack_alert(env, curl),
                         !.exit = triggered]
    /\ UNCHANGED <<config, defaults, args, pc, running, now, cycles, history, probe,
                   metrics, alerts, emailResult, slackResult, cycleLog,
                   transport, host, earlier, obs, output, exitCode>>

NextBash ==
    \/ BashParseArg
    \/ BashRun

SpecBash == InitBash /\ [][NextBash]_vars

(***************************************************************************)
(* Claims about check_thresholds (specification SpecEval).                 *)
(***************************************************************************)
Thresholds == config.thresholds

TempMeasured ==
    config.monitoring.check_temperature /\ probe.temperature.ok

ConnChecked == config.monitoring.check_network

\* C2 (as claimed): when the probe of a metric failed, the alert list holds
\* no alert of a rule keyed on that metric, whatever the thresholds are; a
\* host whose ping probe failed is named by no connectivity alert.
C2_FailedProbeYieldsNoAlert ==
    pc = "evaluated" =>
        /\ ~probe.cpu.ok =>
              Count(alerts, LAMBDA a : a.type \in {"cpu_high", "load_high"}) = 0
        /\ ~probe.memory.ok =>
              Count(alerts, LAMBDA a : a.type = "memory_high") = 0
        /\ ~probe.disk.ok =>
              Count(alerts, LAMBDA a : a.type = "disk_high") = 0
        /\ ~probe.temperature.ok =>
              Count(alerts, LAMBDA a : a.type = "temperature_high") = 0
        /\ ConnChecked =>
              \A i \in 1..Len(test_hosts) :
                 probe.connectivity[i] = "raise" =>
                    Count(alerts, LAMBDA a :
                            /\ a.type = "network_connectivity"
                            /\ \E j \in 1..Len(a.hosts) : a.hosts[j] = test_hosts[i]) = 0

(***************************************************************************)
(* Observations on the cycle log, for the dispatch claims (specification   *)
(* Spec).  An episode of a key is a maximal run of consecutive cycles      *)
(* whose alert list contains the key.                                      *)
(***************************************************************************)
DefaultCooldown == 300
DefaultMaxPerHour == 10

RateLimit ==
    IF "notification_rules" \in DOMAIN config
    THEN config.notification_rules.rate_limiting
    ELSE [enabled |-> TRUE, max_alerts_per_hour |-> DefaultMaxPerHour,
          cooldown_period |-> DefaultCooldown]

LastCycle == Len(cycleLog)

LoggedKeys == UNION {cycleLog[i].keys : i \in 1..LastCycle}

ActiveIn(k, i) == k \in cycleLog[i].keys

\* first cycle of the episode of k that cycle n belongs to
EpisodeStart(k, n) ==
    CHOOSE i \in 1..n :
        /\ \A j \in i..n : ActiveIn(k, j)
        /\ i > 1 => ~ActiveIn(k, i - 1)

Elapsed(k, n) == cycleLog[n].t - cycleLog[EpisodeStart(k, n)].t

\* cycles up to n, not before time 'since', that sent a batch containing k
SendsSince(k, since, n) ==
    Cardinality({i \in 1..n : /\ ActiveIn(k, i) /\ cycleLog[i].sent
                              /\ cycleLog[i].t >= since})

\* C3 (as claimed): with cooldown 300 s and cap 10 per hour, cycles 10 s
\* apart that all report the same key send that key's notification at most
\* twice during the first 20 cycles.
C3_AtMostTwoSendsIn20Cycles ==
    (/\ RateLimit.cooldown_period = 300
     /\ RateLimit.max_alerts_per_hour = 10
     /\ config.monitoring.interval = 10
     /\ LastCycle \in 1..20)
    => \A k \in LoggedKeys :
          (\A i \in 1..LastCycle : ActiveIn(k, i)) => SendsSince(k, 0, LastCycle) <= 2

\* C4 (as claimed): for every key and every cycle, the sends of that key in
\* the hour that ends with the cycle do not exceed the configured cap.
C4_HourlyCapNeverExceeded ==
    \A k \in LoggedKeys, n \in 1..LastCycle :
        SendsSince(k, cycleLog[n].t - 3599, n) <= RateLimit.max_alerts_per_hour

\* the escalation levels whose channel set the episode of k has been
\* notified on at or after the level's time boundary, up to cycle n
LevelsNotified(k, n) ==
    {l \in 1..Len(EscalationLevels) :
        \E i \in EpisodeStart(k, n)..n :
            /\ cycleLog[i].t - cycleLog[EpisodeStart(k, n)].t
                  >= 60 * EscalationLevels[l].threshold_minutes
            /\ EscalationLevels[l].channels \subseteq cycleLog[i].posted}

\* C5 (as claimed): an alert active in every cycle for at least 15 and less
\* than 30 minutes has been escalated to exactly levels 1 and 2.
C5_TwoEscalationsAfter15Minutes ==
    LastCycle > 0 =>
        \A k \in cycleLog[LastCycle].keys :
            (/\ Elapsed(k, LastCycle) >= 900
             /\ Elapsed(k, LastCycle) < 1800)
            => LevelsNotified(k, LastCycle) = {1, 2}

\* k is active in the latest cycle after a cycle without it, and had an
\* earlier episode
Reoccurred(k) ==
    /\ LastCycle >= 3
    /\ ActiveIn(k, LastCycle)
    /\ ~ActiveIn(k, LastCycle - 1)
    /\ \E i \in 1..(LastCycle - 2) : ActiveIn(k, i)

\* run_once was called with send_alerts = True in the latest cycle
Sending == args.continuous \/ ~args.test

\* the latest cycle handed its whole alert list to every enabled channel
DispatchedAfresh ==
    /\ email_handler(config) => emailResult.called /\ emailResult.batch = alerts
    /\ slack_handler(config) => slackResult.called /\ slackResult.batch = alerts

BothChannelsDispatch ==
    /\ LastCycle > 0
    /\ alerts # <<>>
    /\ Sending
    /\ email_handler(config)
    /\ slack_handler(config)

\* C8: in a cycle that has a batch for both channels, each channel's
\* send_alert is called with the batch whatever the other's transport does;
\* the email send reports success exactly when its own SMTP session works,
\* the Slack send exactly when its own POST is answered 200 (or it has no
\* webhook URL), and the cycle's result is appended to the history.
C8_ChannelIsolation ==
    BothChannelsDispatch =>
        /\ emailResult.called /\ ~emailResult.raised
        /\ slackResult.called /\ ~slackResult.raised
        /\ emailResult.returned <=> transport.smtp = "ok"
        /\ emailResult.transmitted <=> transport.smtp = "ok"
        /\ slackResult.returned <=>
              (config.slack.webhook_url = "" \/ transport.post = "200")
        /\ config.monitoring.history_size > 0 =>
              history[Len(history)].metrics.timestamp = cycleLog[LastCycle].t

\* C8 witness: the webhook POST raised and the email of the same batch was sent
C8_Witness ==
    /\ BothChannelsDispatch
    /\ config.slack.webhook_url # ""
    /\ transport.post = "raise"
    /\ ~slackResult.returned
    /\ emailResult.returned /\ emailResult.transmitted

HistorySize == config.monitoring.history_size

Min(a, b) == IF a < b THEN a ELSE b

\* the history holds the results of the latest cycles, oldest first
HistoryIsRecent ==
    \A i \in 1..Len(history) :
        LET c == LastCycle - Len(history) + i
        IN  /\ c >= 1
            /\ history[i].metrics.timestamp = cycleLog[c].t
            /\ Keys(history[i].alerts) = cycleLog[c].keys

\* get_status_report shows the latest cycle
LatestRetrievable ==
    get_status_report(history) =
        [available |-> TRUE, timestamp |-> cycleLog[LastCycle].t, alerts |-> alerts]

C10_OneShotExitCode ==
    (/\ pc = "done"
     /\ ~args.status /\ ~args.continuous
     /\ LastCycle = 1)
    => exitCode = IF alerts = <<>> THEN 0 ELSE 1

\* C10 witness: a test-mode run whose cycle found alerts has exited with 1
C10_Witness ==
    /\ pc = "done"
    /\ ~args.status /\ ~args.continuous
    /\ args.test
    /\ cycles = 1
    /\ alerts # <<>>
    /\ ~emailResult.called /\ ~slackResult.called
    /\ exitCode = 1

(***************************************************************************)
(* Run modes: --test and --status.                                         *)
(***************************************************************************)
\* C11: whenever --test is given, in one-shot and in continuous mode, no
\* cycle performs a channel send: no send_alert is called and nothing is
\* transmitted, while the cycle is still evaluated and appended to history.
C11_TestModeSendsNothing ==
    (args.test /\ LastCycle > 0)
    => /\ ~emailResult.called /\ ~slackResult.called
       /\ \A i \in 1..LastCycle : ~cycleLog[i].sent
       /\ history # <<>> => history[Len(history)].alerts = alerts

\* C12: --status runs no monitoring cycle (no probe, no evaluation, no send,
\* no history append) and prints the summary of the last cycle that was
\* run: when an earlier run of the monitor completed a cycle, the printed
\* report is a cycle's summary.
C12_StatusPrintsLastCycle ==
    (pc = "done" /\ args.status /\ exitCode = 0)
    => /\ cycles = 0 /\ probe = NoAnswer /\ metrics = NoMetrics
       /\ ~emailResult.called /\ ~slackResult.called
       /\ history = <<>>
       /\ output.printed
       /\ earlier => output.report.available

(***************************************************************************)
(* Severity (specification SpecEval).                                      *)
(***************************************************************************)
\* the rule of an alert type that has a critical level
RuleOf(type) ==
    CASE type = "cpu_high" -> "cpu_percent"
      [] type = "memory_high" -> "memory_percent"
      [] type = "disk_high" -> "disk_percent"
      [] type = "temperature_high" -> "temperature"

TieredTypes == {"cpu_high", "memory_high", "disk_high", "temperature_high"}

\* the bounds written in check_thresholds, in tenths
FixedCritical ==
    [cpu_percent |-> 900, memory_percent |-> 950, disk_percent |-> 950,
     temperature |-> 800]

\* C13 (as claimed): severity is "critical" exactly when the value exceeds
\* the rule's configured threshold times the critical multiplier, so that
\* the critical bound moves with the threshold.  The multiplier of a rule
\* is the one its default threshold and default critical bound define
\* (memory: 95 / 85); the comparison value > threshold * bound / default is
\* cross-multiplied.
C13_CriticalBoundFollowsThreshold ==
    pc = "evaluated" =>
        \A i \in 1..Len(alerts) :
            LET a == alerts[i]
            IN  (a.type \in TieredTypes /\ a.threshold > 0) =>
                    LET rule == RuleOf(a.type)
                    IN  (a.severity = "critical")
                        <=> (a.value * DefaultThresholds[rule]
                               > FixedCritical[rule] * a.threshold)

\* C13 (amended): severity is "critical" exactly when the measured value
\* exceeds the rule's fixed critical bound -- cpu 90, memory 95, disk 95,
\* temperature 80 -- whatever threshold is configured, and "warning"
\* otherwise; load and connectivity alerts are always "warning".
C13_CriticalAboveFixedBound ==
    pc = "evaluated" =>
        /\ \A i \in 1..Len(alerts) :
              LET a == alerts[i]
              IN  a.severity =
                     IF a.type \in TieredTypes
                        /\ a.value > FixedCritical[RuleOf(a.type)]
                     THEN "critical" ELSE "warning"
        /\ \A i \in 1..Len(alerts) :
              /\ alerts[i].type = "cpu_high" /\ probe.cpu.ok
                    => alerts[i].value = probe.cpu.percent
              /\ alerts[i].type = "memory_high" /\ probe.memory.ok
                    => alerts[i].value = probe.memory.percent

\* C13 witness: with the memory threshold moved to 90, a reading of 96 is
\* critical and, under the threshold 95, so is the same reading
C13_Witness ==
    /\ pc = "evaluated"
    /\ Thresholds.memory_percent # DefaultThresholds.memory_percent
    /\ Thresholds.memory_percent > 0
    /\ probe.memory.ok /\ probe.memory.percent = 960
    /\ \E i \in 1..Len(alerts) :
          /\ alerts[i].type = "memory_high"
          /\ alerts[i].severity = "critical"
          /\ alerts[i].threshold = Thresholds.memory_percent

(***************************************************************************)
(* Memory severity over consecutive cycles (specification SpecMemory).     *)
(***************************************************************************)
MemoryAlertsOf(as) == SelectSeq(as, LAMBDA a : a.type = "memory_high")

\* C14: with the memory threshold at 85, the latest cycle holds exactly one
\* memory alert when the reading is above 85 and none otherwise; the alert
\* is a warning for a reading in (85, 95] and critical above 95; the memory
\* alerts of consecutive cycles carry the same alert key, whatever their
\* severities (92 then 96: a warning, then a critical of the same key).
C14_MemoryWarningThenCritical ==
    (LastCycle > 0 /\ Thresholds.memory_percent = 850) =>
        /\ LET v == probe.memory.percent
               mem == MemoryAlertsOf(alerts)
           IN  /\ Len(mem) = OneIf(v > 850)
               /\ (v > 850 /\ v <= 950) => mem[1].severity = "warning"
               /\ v > 950 => mem[1].severity = "critical"
               /\ v > 850 => mem[1].value = v
        /\ \A i \in 1..(Len(history) - 1) :
              LET before == MemoryAlertsOf(history[i].alerts)
                  after == MemoryAlertsOf(history[i + 1].alerts)
              IN  (before # <<>> /\ after # <<>>)
                  => /\ Len(before) = 1 /\ Len(after) = 1
                     /\ AlertKey(before[1]) = AlertKey(after[1])

\* C14 witness: a cycle reading 92 gave one warning and the next cycle,
\* reading 96, gave one critical alert of the same key
C14_Witness ==
    /\ Thresholds.memory_percent = 850
    /\ Len(history) >= 2
    /\ LET before == history[Len(history) - 1]
           after == history[Len(history)]
       IN  /\ before.metrics.memory.virtual.percent = 920
           /\ after.metrics.memory.virtual.percent = 960
           /\ Len(MemoryAlertsOf(before.alerts)) = 1
           /\ Len(MemoryAlertsOf(after.alerts)) = 1
           /\ MemoryAlertsOf(before.alerts)[1].severity = "warning"
           /\ MemoryAlertsOf(after.alerts)[1].severity = "critical"
           /\ AlertKey(MemoryAlertsOf(before.alerts)[1])
                 = AlertKey(MemoryAlertsOf(after.alerts)[1])

(***************************************************************************)
(* Probe failures in collect_metrics (specification SpecEval).             *)
(***************************************************************************)
Recorded(section) == "error" \in DOMAIN section

EntryOf(entries, key) ==
    {i \in 1..Len(entries) : entries[i].key = key}

\* the snapshot holds what the cpu, memory and disk probes answered
CpuReadingsKept ==
    /\ ~Recorded(metrics.cpu)
    /\ metrics.cpu.percent = probe.cpu.percent
    /\ metrics.cpu.load_average.min1 = probe.cpu.load1

MemoryReadingsKept ==
    /\ ~Recorded(metrics.memory)
    /\ metrics.memory.virtual.percent = probe.memory.percent

DiskReadingsKept ==
    /\ EntryOf(metrics.disk, "error") = {}
    /\ \A n \in 1..Len(probe.disk.parts) :
          LET part == probe.disk.parts[n]
          IN  part.readable =>
                 \E i \in EntryOf(metrics.disk, part.mountpoint) :
                    /\ metrics.disk[i].val.used = part.used
                    /\ metrics.disk[i].val.total = part.total

TemperatureReadingsKept ==
    /\ EntryOf(metrics.temperature, "error") = {}
    /\ Len(metrics.temperature) = Len(probe.temperature.groups)
    /\ \A g \in 1..Len(probe.temperature.groups) :
          /\ metrics.temperature[g].key = probe.temperature.groups[g].name
          /\ [j \in 1..Len(metrics.temperature[g].val.list) |->
                 metrics.temperature[g].val.list[j].current]
                = probe.temperature.groups[g].entries

\* C15: the failure of a probe does not abort collect_metrics: the snapshot
\* is returned with all its sections, the section of each failed probe
\* records the failure, and the section of every probe that answered holds
\* that probe's readings unchanged, whichever other probes failed.
C15_ProbeFailureIsolated ==
    pc = "evaluated" =>
        /\ {"timestamp", "cpu", "memory", "disk", "network"} \subseteq DOMAIN metrics
        /\ metrics.timestamp = now
        /\ IF probe.cpu.ok THEN CpuReadingsKept ELSE Recorded(metrics.cpu)
        /\ IF probe.memory.ok THEN MemoryReadingsKept ELSE Recorded(metrics.memory)
        /\ IF probe.disk.ok THEN DiskReadingsKept
           ELSE EntryOf(metrics.disk, "error") # {}
        /\ Recorded(metrics.network) <=> ~probe.network.ok
        /\ config.monitoring.check_processes =>
              /\ "processes" \in DOMAIN metrics
              /\ Recorded(metrics.processes) <=> ~probe.processes.ok
        /\ config.monitoring.check_temperature =>
              /\ "temperature" \in DOMAIN metrics
              /\ IF probe.temperature.ok THEN TemperatureReadingsKept
                 ELSE EntryOf(metrics.temperature, "error") # {}
        /\ config.monitoring.check_network =>
              /\ "connectivity" \in DOMAIN metrics
              /\ \A h \in 1..Len(test_hosts) :
                    LET entry == metrics.connectivity[h]
                    IN  /\ entry.key = test_hosts[h]
                        /\ Recorded(entry.val) <=> probe.connectivity[h] = "raise"
                        /\ entry.val.reachable <=> probe.connectivity[h] = "ok"

\* C15 witness: the memory probe failed and was recorded while the cpu,
\* disk and temperature readings above their thresholds are in the snapshot
C15_Witness ==
    /\ pc = "evaluated"
    /\ ~probe.memory.ok /\ Recorded(metrics.memory)
    /\ probe.cpu.ok /\ metrics.cpu.percent = 901
    /\ probe.disk.ok /\ EntryOf(metrics.disk, "/home") # {}
    /\ config.monitoring.check_temperature /\ probe.temperature.ok
    /\ metrics.temperature # <<>>
    /\ \A h \in 1..Len(test_hosts) : probe.connectivity[h] = "fail"

(***************************************************************************)
(* The continuous loop and errors inside a cycle.                          *)
(***************************************************************************)
\* C16: in continuous mode a cycle that starts while the driver has not
\* been terminated is followed by the sleep and the next loop test: an
\* error raised inside the cycle by a probe, the evaluator or a channel
\* does not end the loop or clear the running flag.
C16_CycleErrorKeepsLoop ==
    [][(pc = "loop" /\ running /\ cycles' = cycles + 1)
         => (pc' = "sleep" /\ running')]_vars

(***************************************************************************)
(* The Slack channel.                                                      *)
(***************************************************************************)
\* the HTTP statuses of the 2xx range among the answers of the webhook
SuccessStatuses == {"200", "204"}

\* C17: after a POST that was answered, SlackNotifier.send_alert returns
\* True for every status of the 2xx range and False for every other status.
C17_SuccessIsAny2xx ==
    (slackResult.called /\ slackResult.transmitted)
    => (slackResult.returned <=> transport.post \in SuccessStatuses)

\* C18: the colour of the attachment built for a batch is the critical
\* colour if any alert of the batch is critical, otherwise the warning
\* colour if any alert is warning, otherwise the info colour; these three
\* colours are the only ones emitted.
C18_ColourByHighestSeverity ==
    slackResult.payload.built =>
        LET batch == slackResult.batch
            SomeIs(sv) == \E i \in 1..Len(batch) :
                          "severity" \in DOMAIN batch[i] /\ batch[i].severity = sv
            color == slackResult.payload.color
        IN  /\ color \in {"#f44336", "#ff9800", "#2196f3"}
            /\ color = "#f44336" <=> SomeIs("critical")
            /\ color = "#ff9800" <=> (~SomeIs("critical") /\ SomeIs("warning"))
            /\ color = "#2196f3" <=> (~SomeIs("critical") /\ ~SomeIs("warning"))

\* C18 witness: a posted batch with a warning ahead of a critical alert and
\* an info alert is red
C18_Witness ==
    /\ slackResult.transmitted
    /\ slackResult.payload.built
    /\ Len(slackResult.batch) = 3
    /\ "severity" \in DOMAIN slackResult.batch[1]
    /\ slackResult.batch[1].severity = "warning"
    /\ "severity" \in DOMAIN slackResult.batch[2]
    /\ slackResult.batch[2].severity = "info"
    /\ "severity" \in DOMAIN slackResult.batch[3]
    /\ slackResult.batch[3].severity = "critical"
    /\ slackResult.payload.color = "#f44336"

(***************************************************************************)
(* Configuration: unusable settings and the loading of the file.           *)
(***************************************************************************)
\* a channel is enabled while a setting it cannot send without is missing
UnusableConfig ==
    \/ config.slack.enabled /\ config.slack.webhook_url = ""
    \/ config.email.enabled /\ config.email.to_addresses = <<>>

\* C19: with an unusable configuration the process halts at startup: no
\* cycle is ever run, and so no cycle hands a batch to a channel whose send
\* does nothing and reports success.
C19_UnusableConfigHalts ==
    UnusableConfig =>
        /\ cycles = 0
        /\ ~(slackResult.called /\ slackResult.returned
             /\ ~slackResult.transmitted)

\* the configuration file the run was pointed at exists
FileExists == args.config # NoFile

\* C20: when the configuration file exists, at the default path or at the
\* path given with --config, every option the file specifies has the
\* file's value in the effective configuration -- options and sections
\* unknown to the defaults included -- and every default option the file
\* omits keeps its default, also next to overridden options of its section.
C20_FileOverridesDefaults ==
    FileExists =>
        /\ \A s \in DOMAIN args.config : \A k \in DOMAIN args.config[s] :
              /\ s \in DOMAIN config
              /\ k \in DOMAIN config[s]
              /\ config[s][k] = args.config[s][k]
        /\ \A s \in DOMAIN Defaults : \A k \in DOMAIN Defaults[s] :
              (s \notin DOMAIN args.config \/ k \notin DOMAIN args.config[s])
              => /\ s \in DOMAIN config
                 /\ k \in DOMAIN config[s]
                 /\ config[s][k] = Defaults[s][k]

(***************************************************************************)
(* The Bash monitor's test mode (specification SpecBash).                  *)
(***************************************************************************)
\* C21: when -t/--test is on the command line, the run sends no email and
\* no Slack alert, whatever other options are given, -c FILE with a file
\* that enables the channels included, before or after -t.
C21_BashTestModeSendsNothing ==
    (sh.pc = "done" /\ "-t" \in {sh.line[i] : i \in 1..Len(sh.line)}
       /\ sh.test_mode)
    => (sh.mails = 0 /\ sh.posts = 0)

(***************************************************************************)
(* The statement-level run (specifications SpecSteps and SpecStepsLive).   *)
(***************************************************************************)
\* C22: a channel send that has started always comes back, sent or failed:
\* from the email send the cycle always reaches the Slack send (or the end
\* of the run), however the remote end behaves.
C22_SendAlwaysReturns ==
    (pc = "email") ~> (pc \in {"slack", "append", "sleep", "done"})

\* a channel send of the cycle in progress has gone out
SentInCycle == emailResult.transmitted \/ slackResult.transmitted

\* C23: a KeyboardInterrupt in continuous mode never leaves a cycle part-way
\* done: when it ends the run, there is no cycle in which a channel send
\* happened while the other channel's send or the history append of that
\* cycle did not.
C23_InterruptNeverSplitsCycle ==
    (pc = "done" /\ obs.interruptedAt \in {"slack", "append"})
    => ~SentInCycle

\* the result run_once appends for the cycle in progress
CycleResult ==
    [metrics |-> metrics, alerts |-> alerts, alert_count |-> Len(alerts)]

\* C24: cycles do not overlap and the steps of a cycle are ordered.  The
\* evaluation works on the finished snapshot of this cycle; a send hands
\* over the finished alert list and changes neither snapshot, alert list
\* nor history; the history append comes after the sends of every enabled
\* channel; and a cycle starts only from the loop test, when no cycle is
\* in progress and, after an earlier cycle, exactly one sleep of the
\* configured interval after that cycle completed.
C24_CycleStepsOrdered ==
    [][/\ (pc' = "evaluate" /\ pc # "evaluate") =>
              (pc = "collect" /\ metrics'.timestamp = now)
       /\ (alerts' # alerts /\ alerts' # <<>>) =>
              /\ pc = "evaluate"
              /\ metrics' = metrics /\ metrics.timestamp = now
              /\ alerts' = check_thresholds(config, metrics)
       /\ (emailResult' # emailResult /\ emailResult'.called) =>
              /\ emailResult'.batch = alerts
              /\ alerts = check_thresholds(config, metrics)
              /\ ~slackResult.called
              /\ UNCHANGED <<metrics, alerts, history>>
       /\ (slackResult' # slackResult /\ slackResult'.called) =>
              /\ slackResult'.batch = alerts
              /\ email_handler(config) => emailResult.called
              /\ UNCHANGED <<metrics, alerts, history>>
       /\ history' # history =>
              /\ history'[Len(history')] = CycleResult
              /\ (alerts # <<>> /\ email_handler(config)) => emailResult.called
              /\ (alerts # <<>> /\ slack_handler(config)) => slackResult.called
              /\ pc' = "sleep"
       /\ (pc' = "collect" /\ pc # "collect") =>
              /\ pc = "loop"
              /\ obs.lastDone = -1 \/ now = obs.lastDone + config.monitoring.interval
      ]_vars

\* C24 witness: two cycles have completed one interval apart, the second
\* after its email and Slack sends
C24_Witness ==
    /\ pc = "sleep"
    /\ cycles = 2
    /\ Len(history) = 2
    /\ history[2].metrics.timestamp
          = history[1].metrics.timestamp + config.monitoring.interval
    /\ history[2] = CycleResult
    /\ emailResult.transmitted /\ emailResult.batch = alerts
    /\ slackResult.transmitted /\ slackResult.batch = alerts

(***************************************************************************)
(* Disk readings (specification SpecEval).                                 *)
(***************************************************************************)
Abs(x) == IF x < 0 THEN 0 - x ELSE x

DiskAlertsOn(mountpoint) ==
    Count(alerts, LAMBDA a : a.type = "disk_high" /\ a.mountpoint = mountpoint)

\* C25: for every partition that could be read, the reading's percent is
\* used/total as a percentage (to the tenth it is rounded to) when total
\* is above 0 and is 0 when total is 0; the disk probe does not fail on
\* it, and a partition of total 0 gives no disk alert under a threshold
\* that is not negative.
C25_DiskPercentOfZeroTotal ==
    (pc = "evaluated" /\ probe.disk.ok) =>
        /\ EntryOf(metrics.disk, "error") = {}
        /\ \A n \in 1..Len(probe.disk.parts) :
              LET part == probe.disk.parts[n]
              IN  part.readable =>
                     \E i \in EntryOf(metrics.disk, part.mountpoint) :
                        LET percent == metrics.disk[i].val.percent
                        IN  IF part.total > 0
                            THEN 2 * Abs(percent * part.total - 1000 * part.used)
                                    <= part.total
                            ELSE /\ percent = 0
                                 /\ Thresholds.disk_percent >= 0
                                       => DiskAlertsOn(part.mountpoint) = 0

\* C25 witness: /home has total 0, reads 0% and raises no alert, while /
\* holds 2 of 3 units and reads 66.7%
C25_Witness ==
    /\ pc = "evaluated"
    /\ probe.disk.ok
    /\ Thresholds.disk_percent >= 0
    /\ probe.disk.parts[1] = Partition("/", TRUE, 2, 3)
    /\ probe.disk.parts[2] = Partition("/home", TRUE, 0, 0)
    /\ metrics.disk[1].val.percent = 667
    /\ metrics.disk[2].val.percent = 0
    /\ DiskAlertsOn("/home") = 0

\* C26: within a cycle a channel's send_alert is invoked only when the
\* cycle's alert list is not empty, only for an enabled channel, at most
\* once, and with the whole alert list as its batch; a cycle without
\* alerts reaches its history append without any send.
C26_OneBatchPerChannelPerCycle ==
    [][/\ (emailResult' # emailResult /\ emailResult'.called) =>
              /\ ~emailResult.called
              /\ email_handler(config)
              /\ alerts # <<>>
              /\ emailResult'.batch = alerts
       /\ (slackResult' # slackResult /\ slackResult'.called) =>
              /\ ~slackResult.called
              /\ slack_handler(config)
              /\ alerts # <<>>
              /\ slackResult'.batch = alerts
       /\ (pc' = "append" /\ alerts' = <<>>) =>
              /\ ~emailResult'.called /\ ~slackResult'.called
              /\ transport' = NoTransport
      ]_vars

\* C26 witness: a cycle with several alerts has handed the whole list to
\* the email channel and to the Slack channel
C26_Witness ==
    /\ pc = "append"
    /\ Len(alerts) > 1
    /\ emailResult.called /\ emailResult.batch = alerts
    /\ slackResult.called /\ slackResult.batch = alerts
    /\ slackResult.payload.text = Len(alerts)

\* C27: after a call of stop(), made at any moment -- before
\* run_continuous sets running included -- no new cycle is started: the
\* loop test that follows the call does not enter the loop body.
C27_NoCycleAfterStop ==
    [][(obs.stopCalled /\ pc = "loop") => pc' # "collect"]_vars

(***************************************************************************)
(* The evaluation as a function (specification Spec).                      *)
(***************************************************************************)
\* what check_thresholds reads of a snapshot: everything but the time
Readings(m) == [k \in DOMAIN m \ {"timestamp"} |-> m[k]]

NotReachable ==
    {metrics.connectivity[h].key :
        h \in {n \in 1..Len(metrics.connectivity) :
                  ~metrics.connectivity[n].val.reachable}}

ConnectivityAlertsOf(as) ==
    SelectSeq(as, LAMBDA a : a.type = "network_connectivity")

\* C29: check_thresholds emits exactly one network_connectivity alert when
\* at least one tested host is recorded as not reachable and none when all
\* are reachable; the alert lists each unreachable host once and no other
\* host, and its severity is warning.
C29_OneConnectivityAlert ==
    (pc = "evaluated" /\ ConnChecked) =>
        LET conn == ConnectivityAlertsOf(alerts)
        IN  /\ Len(conn) = OneIf(NotReachable # {})
            /\ NotReachable
                  = {test_hosts[h] : h \in {n \in 1..Len(test_hosts) :
                                               probe.connectivity[n] # "ok"}}
            /\ conn # <<>> =>
                  /\ {conn[1].hosts[h] : h \in 1..Len(conn[1].hosts)}
                        = NotReachable
                  /\ Len(conn[1].hosts) = Cardinality(NotReachable)
                  /\ conn[1].severity = "warning"

\* C29 witness: one host answered, one did not and the ping of the third
\* raised; the single alert lists the two unreachable hosts
C29_Witness ==
    /\ pc = "evaluated"
    /\ ConnChecked
    /\ probe.connectivity = <<"fail", "ok", "raise">>
    /\ Len(ConnectivityAlertsOf(alerts)) = 1
    /\ ConnectivityAlertsOf(alerts)[1].hosts = <<"8.8.8.8", "google.com">>
    /\ ConnectivityAlertsOf(alerts)[1].severity = "warning"

(***************************************************************************)
(* The defaults table of Config.                                           *)
(***************************************************************************)
\* C30: loading a configuration file leaves the defaults table unchanged:
\* whatever the file overrides, every value of self.defaults is still the
\* built-in default.
C30_DefaultsUntouched ==
    defaults = Defaults

====
